---- MODULE Spec2Model ----
(***************************************************************************)
(* Mint availability and transaction orchestration of the mint page.       *)
(*                                                                         *)
(* The page component holds the React state (cm, guard, counts, costInSol, *)
(* mintDisabled, loading, mintCreated, mintMsg).  Three asynchronous flows *)
(* write it: retrieveAvailability (the refresh), the balance effect of     *)
(* MintBlock (the gate) and mintBtnHandler (the mint attempt).  Each flow  *)
(* is cut at its awaits: one action per synchronous segment.               *)
(*                                                                         *)
(* The repository holds several copies of the page.  `variant` selects the *)
(* copy: "backup" is page.backup20260113.tsx, "page" is the first page of  *)
(* page.tsx and "part000" is unnamed/part_000.                             *)
(*                                                                         *)
(* The configuration (getNetwork, getEndpoint, getCandyMachineId) and the  *)
(* explorer link are pure functions of process.env; they are applied by    *)
(* Page_render and explored on their own under SpecEnv, where `variant`    *)
(* can also be "werkend", the copy `Werkend_page - Copy (20260103).tsx`.   *)
(***************************************************************************)
EXTENDS Integers, Sequences, FiniteSets, TLC

VARIABLES
    env,            \* process.env: the three NEXT_PUBLIC_ settings, as strings
    home,           \* what Page resolved from env when it rendered, NULL before
    variant,        \* which copy of the page runs
    mounted,        \* Page is mounted; false once the route was left
    again,          \* how often the refresh effect was run again on the settled page
    baseline,       \* what was shown when it was run again the second time
    cmIdKind,       \* NEXT_PUBLIC_CANDY_MACHINE_ID: "missing", "invalid" or "valid"
    regTotal,       \* registry: candyMachine.itemsLoaded
    regMinted,      \* registry: candyMachine.itemsRedeemed
    regGuard,       \* registry: the candy guard of the machine, NULL when none
    balance,        \* ledger: lamports of the wallet
    connected,      \* wallet.connected
    cm, guard, loading, mintCreated, mintMsg,
    countTotal, countMinted, countRemaining, costInSol, mintDisabled,
    refreshes,      \* retrieveAvailability calls suspended at an await
    balanceReads,   \* getBalance calls in flight, by the costInSol their effect captured
    mintCall,       \* the sendAndConfirm call in flight, NULL when none
    gatePending,    \* MintBlock's effects are due (a render was committed)
    refreshPending, \* Page's effect on [mintCreated] is due
    nextKey,        \* generateSigner: the next fresh public key
    clicks, sends, refreshStarts,   \* history: clicks handled, sendAndConfirm calls, refreshes started
    last,           \* history: what the last step did
    refreshResult,  \* history: how the last refresh that ended did end
    writer          \* history: the refresh that wrote cm and the counts, and the one that
                    \* wrote guard (and the price), by id; 0 when none has

vars == <<env, home, variant, mounted, again, baseline, cmIdKind, regTotal, regMinted, regGuard, balance, connected,
          cm, guard, loading, mintCreated, mintMsg,
          countTotal, countMinted, countRemaining, costInSol, mintDisabled,
          refreshes, balanceReads, mintCall, gatePending, refreshPending,
          nextKey, clicks, sends, refreshStarts, last, refreshResult, writer>>

----------------------------------------------------------------------------
(* Bounds *)

MaxItems == 2
MaxClicks == 2
MaxReads == 1
MaxLen == 3
MaxAgain == 2

(* Program constants *)

LamportsPerSol == 1000000000
ComputeUnits == 600000

----------------------------------------------------------------------------
(* Values *)

\* null | T is modelled as a sequence of length 0 or 1.
NULL == <<>>
Some(x) == <<x>>
IsNull(o) == o = NULL
Val(o) == o[1]

Variants == {"backup", "page", "part000"}

\* The wallet's public key; generateSigner never returns it.
PayerKey == 0

\* Lamport amounts are whole SOL, so that the division by 1_000_000_000 is exact.
PaymentLamports == {1 * LamportsPerSol, 2 * LamportsPerSol}
BalanceLamports == {0, 1 * LamportsPerSol, 2 * LamportsPerSol}

\* The account a solPayment guard pays to: one treasury per amount.
Treasury(l) == 10 + l \div LamportsPerSol

\* Option<SolPayment>
OptNone == [option |-> "None", lamports |-> 0, destination |-> 0]
OptSome(l) == [option |-> "Some", lamports |-> l, destination |-> Treasury(l)]
isSome(o) == o.option = "Some"

\* CandyGuard records the registry can hold: solPayment unset, or set with an amount.
Guards == {[solPayment |-> OptNone]} \cup {[solPayment |-> OptSome(l)] : l \in PaymentLamports}

\* Errors thrown by the registry, the ledger and the transaction pipeline.
Errors == {[message |-> "timeout"], [message |-> ""]}

\* err?.message || String(err)
ErrText(e) == IF e.message # "" THEN e.message ELSE "Error"

\* A message is a fixed text followed by an interpolated detail.
Msg(text, detail) == <<text, detail>>
MsgMissingId(v) ==
    IF v = "page"
    THEN Msg("No candy machine ID found. Set NEXT_PUBLIC_CANDY_MACHINE_ID in Vercel / .env.local.", "")
    ELSE Msg("Missing NEXT_PUBLIC_CANDY_MACHINE_ID in Vercel env vars.", "")
MsgInvalidId == Msg("Invalid candy machine public key. Check NEXT_PUBLIC_CANDY_MACHINE_ID (no quotes/spaces).", "")
MsgFetchFailed(e) == Msg("Could not fetch candy machine. Check RPC/network. Details: ", ErrText(e))
MsgNotEnough(v) ==
    IF v = "page" THEN Msg("Add more SOL to your wallet.", "") ELSE Msg("Not enough SOL in wallet.", "")
MsgBalanceFailed(e) == Msg("Could not read wallet balance: ", ErrText(e))
MsgConnectFirst == Msg("Connect your wallet first.", "")
MsgNotLoaded(v) ==
    IF v = "page"
    THEN Msg("Candy Machine not loaded yet. Refresh the page.", "")
    ELSE Msg("Candy Machine not loaded (refresh).", "")
MsgMintOk(v) ==
    IF v = "page" THEN Msg("Mint was successful!", "") ELSE Msg("Mint successful.", "")
\* A catch block that shows a fixed text in place of the error's own.
MsgThrown_generic(e) == Msg("Mint failed.", "")
\* setMintMsg(err?.message || String(err))
MsgThrown(e) == Msg("", ErrText(e))

----------------------------------------------------------------------------
(* The React state and its commit *)

reactState == <<cm, guard, loading, mintCreated, mintMsg,
                countTotal, countMinted, countRemaining, costInSol, mintDisabled>>

\* No effect is due: the event loop is free to run a callback or an event.
Idle == mounted /\ ~gatePending /\ ~refreshPending

\* Commit without Page's effect on [mintCreated].
Commit_noRefresh ==
    /\ gatePending' = (reactState' # reactState)
    /\ refreshPending' = FALSE

\* A commit of changed state re-renders Page; MintBlock is declared inside Page, so it
\* is mounted again and its effects run.  Page's own effect runs when mintCreated changed.
Commit ==
    /\ gatePending' = (reactState' # reactState)
    /\ refreshPending' = (mintCreated' # mintCreated)

----------------------------------------------------------------------------
(* Pure parts of retrieveAvailability *)

\* const remaining = total - minted;  the "page" copy clamps it at 0.
remainingOf(v, total, minted) ==
    IF v = "page"
    THEN (IF total - minted > 0 THEN total - minted ELSE 0)
    ELSE total - minted

\* soldOut with the comparison off by one.
soldOut_offByOne(remaining) == ~(remaining >= 0)

\* setMintDisabled(!(remaining > 0))
soldOut(remaining) == ~(remaining > 0)

\* unwrapSome(option): the value of Some, null for None.
unwrapSome(o) == IF isSome(o) THEN Some(o) ELSE NULL

\* The error of reading a property of null.
TypeError == [message |-> "Cannot read properties of null (reading 'lamports')"]

\* The price branch throws: in "part000" the guard's solPayment is unwrapped without
\* a test, and reading .lamports of null is a TypeError.
solCostThrows(v, cg) ==
    /\ v = "part000"
    /\ ~IsNull(cg)
    /\ IsNull(unwrapSome(Val(cg).solPayment))

\* The value given to setCostInSol: Number(lamports.basisPoints) / 1_000_000_000 for a
\* set solPayment, 0 without a guard or with solPayment unset.
solCost(v, cg) ==
    IF IsNull(cg) THEN 0
    ELSE IF v = "part000"
         THEN Val(unwrapSome(Val(cg).solPayment)).lamports \div LamportsPerSol
         ELSE IF isSome(Val(cg).solPayment)
              THEN Val(cg).solPayment.lamports \div LamportsPerSol
              ELSE 0

----------------------------------------------------------------------------
(* In-flight calls *)

\* balanceReads maps a captured closure to the number of getBalance calls in flight for
\* it; at most MaxReads calls of one closure are told apart.
AddRead(b, r) ==
    IF r \in DOMAIN b
    THEN (IF b[r] < MaxReads THEN [b EXCEPT ![r] = @ + 1] ELSE b)
    ELSE [x \in DOMAIN b \cup {r} |-> IF x = r THEN 1 ELSE b[x]]

RemoveRead(b, r) ==
    IF b[r] > 1
    THEN [b EXCEPT ![r] = @ - 1]
    ELSE [x \in DOMAIN b \ {r} |-> b[x]]

NoReads == [x \in {} |-> 0]

\* What the last step did; a completed refresh leaves the machine record it fetched, a
\* catch block the error it caught.
Last(op) == [op |-> op, candyMachine |-> NULL, error |-> NULL]
Caught(op, e) == [op |-> op, candyMachine |-> NULL, error |-> Some(e)]

Unchanged_env == UNCHANGED <<env, home, variant, mounted, again, baseline, cmIdKind, regTotal, regGuard>>
Unchanged_mint == UNCHANGED <<mintCall, nextKey, clicks, sends, loading, mintCreated>>

----------------------------------------------------------------------------
(* The environment resolver *)

\* A string is a sequence of pieces, each standing for one or more characters:
\* " " is white space, "\"" a quote character, "K" the base58 text of a 32-byte key,
\* "h" a host name, "x" any other text.  An unset variable reads as the empty string
\* (every use of process.env here tests it for falsiness first).
NetChars == {" ", "devnet", "DEVNET", "testnet", "x"}
RpcChars == {" ", "http", "s", "://", "h"}
IdChars == {" ", "\"", "K", "x"}

RECURSIVE Str(_, _)
Str(A, n) ==
    IF n = 0 THEN {<<>>}
    ELSE LET S == Str(A, n - 1) IN S \cup {Append(t, c) : t \in S, c \in A}

Copies == Variants \cup {"werkend"}

\* String.prototype.toLowerCase
toLowerCase(str) == [i \in 1..Len(str) |-> IF str[i] = "DEVNET" THEN "devnet" ELSE str[i]]

\* String.prototype.trim
RECURSIVE trimStart(_)
trimStart(str) == IF str # <<>> /\ Head(str) = " " THEN trimStart(Tail(str)) ELSE str
RECURSIVE trimEnd(_)
trimEnd(str) ==
    IF str # <<>> /\ str[Len(str)] = " " THEN trimEnd(SubSeq(str, 1, Len(str) - 1)) ELSE str
trim(str) == trimEnd(trimStart(str))

\* String.prototype.startsWith
startsWith(str, prefix) ==
    Len(str) >= Len(prefix) /\ SubSeq(str, 1, Len(prefix)) = prefix

\* const n = (process.env.NEXT_PUBLIC_NETWORK || '').toLowerCase().trim();
\* the "werkend" copy defaults to 'mainnet-beta'.
getNetwork(v, raw) ==
    LET n == trim(toLowerCase(IF raw = <<>> /\ v = "werkend" THEN <<"mainnet-beta">> ELSE raw))
    IN IF n = <<"devnet">> THEN "Devnet"
       ELSE IF n = <<"testnet">> THEN "Testnet"
       ELSE "Mainnet"

defaultEndpoint(network) ==
    IF network = "Devnet" THEN <<"http", "s", "://", "api.devnet.solana.com">>
    ELSE IF network = "Testnet" THEN <<"http", "s", "://", "api.testnet.solana.com">>
    ELSE <<"http", "s", "://", "api.mainnet-beta.solana.com">>

\* if (!rpc || !rpc.startsWith('http')) ... return rpc;  the "werkend" copy tests
\* startsWith('https://') || startsWith('http://').
getEndpoint(v, rawRpc, rawNetwork) ==
    LET rpc == trim(rawRpc)
        accepted == IF v = "werkend"
                    THEN rpc # <<>> /\ (startsWith(rpc, <<"http", "s", "://">>)
                                         \/ startsWith(rpc, <<"http", "://">>))
                    ELSE rpc # <<>> /\ startsWith(rpc, <<"http">>)
    IN IF accepted THEN rpc ELSE defaultEndpoint(getNetwork(v, rawNetwork))

\* replace(/^["']|["']$/g, ''): one quote at the start and one at the end are removed.
stripQuotes(str) ==
    LET s1 == IF str # <<>> /\ Head(str) = "\"" THEN Tail(str) ELSE str
    IN IF s1 # <<>> /\ s1[Len(s1)] = "\"" THEN SubSeq(s1, 1, Len(s1) - 1) ELSE s1

\* const id = (process.env.NEXT_PUBLIC_CANDY_MACHINE_ID || '').trim(); return id ? id : null;
\* the "werkend" copy: if (!raw) return null; return raw.trim().replace(...).
getCandyMachineId(v, raw) ==
    IF v = "werkend"
    THEN IF raw = <<>> THEN NULL ELSE Some(stripQuotes(trim(raw)))
    ELSE IF trim(raw) = <<>> THEN NULL ELSE Some(trim(raw))

\* publicKey(cmIdStr) throws unless the string is the base58 text of a 32-byte key.
publicKeyParses(str) == str = <<"K">>

\* What retrieveAvailability makes of cmIdStr: !cmIdStr, publicKey throws, or a key.
cmIdKindOf(cmIdStr) ==
    IF IsNull(cmIdStr) \/ Val(cmIdStr) = <<>> THEN "missing"
    ELSE IF publicKeyParses(Val(cmIdStr)) THEN "valid"
    ELSE "invalid"

\* base58PublicKey(mintCreated): the text of a key.
base58PublicKey(key) == <<"base58", key>>

\* A link that carries the cluster suffix on every network.
explorerHref_always(network, created) ==
    IF IsNull(created) THEN NULL
    ELSE Some(<<"https://solscan.io/token/", base58PublicKey(Val(created)), "?cluster=devnet">>)

\* href={`https://solscan.io/token/${base58PublicKey(mintCreated)}${
\*        network === WalletAdapterNetwork.Devnet ? '?cluster=devnet' : ''}`}
\* rendered only when mintCreated is set.
explorerHref(network, created) ==
    IF IsNull(created) THEN NULL
    ELSE Some(<<"https://solscan.io/token/", base58PublicKey(Val(created)),
                IF network = "Devnet" THEN "?cluster=devnet" ELSE "">>)

----------------------------------------------------------------------------
(* Init: the page is mounted, its effects are due *)

Init ==
    /\ variant \in Variants
    /\ env \in [NEXT_PUBLIC_NETWORK : {<<>>}, NEXT_PUBLIC_RPC_URL : {<<>>},
                 NEXT_PUBLIC_CANDY_MACHINE_ID : {<<>>, <<"x">>, <<"K">>}]
    /\ home = NULL
    /\ mounted = TRUE
    /\ again = 0 /\ baseline = NULL
    /\ cmIdKind = cmIdKindOf(getCandyMachineId(variant, env.NEXT_PUBLIC_CANDY_MACHINE_ID))
    /\ regTotal \in 0..MaxItems
    /\ regMinted \in 0..MaxItems
    /\ regGuard \in {NULL} \cup {Some(g) : g \in Guards}
    /\ balance \in BalanceLamports
    /\ connected = FALSE
    /\ cm = NULL /\ guard = NULL
    /\ loading = FALSE /\ mintCreated = NULL /\ mintMsg = NULL
    /\ countTotal = NULL /\ countMinted = NULL /\ countRemaining = NULL
    /\ costInSol = 0
    /\ mintDisabled = TRUE
    /\ refreshes = {} /\ balanceReads = NoReads /\ mintCall = NULL
    /\ gatePending = TRUE /\ refreshPending = TRUE
    /\ nextKey = 1
    /\ clicks = 0 /\ sends = 0 /\ refreshStarts = 0
    /\ last = Last("mount")
    /\ refreshResult = "none"
    /\ writer = [machine |-> 0, guard |-> 0]

----------------------------------------------------------------------------
(* retrieveAvailability *)

\* An identifier check that passes whatever publicKey() would say.
retrieveAvailability_idCheck_noParse(v, kind) ==
    IF kind = "missing" THEN Some(MsgMissingId(v)) ELSE NULL

\* The two early returns: if (!cmIdStr), and the catch around publicKey(cmIdStr).
\* The message of the failed test, or null when the identifier is a key.
retrieveAvailability_idCheck(v, kind) ==
    IF kind = "missing" THEN Some(MsgMissingId(v))
    ELSE IF kind = "invalid" THEN Some(MsgInvalidId)
    ELSE NULL

\* Up to the first await: clear the message, resolve and parse the identifier, call
\* fetchCandyMachine.
retrieveAvailability_start ==
    /\ refreshPending /\ ~gatePending
    /\ refreshStarts' = refreshStarts + 1
    /\ IF ~IsNull(retrieveAvailability_idCheck(variant, cmIdKind))
       THEN /\ mintMsg' = Val(retrieveAvailability_idCheck(variant, cmIdKind))
            /\ mintDisabled' = TRUE
            /\ refreshes' = refreshes
            /\ last' = Last("refreshFailed")
            /\ refreshResult' = "failed"
       ELSE /\ mintMsg' = NULL
            /\ mintDisabled' = mintDisabled
            /\ refreshResult' = refreshResult
            /\ refreshes' = refreshes \cup
                   {[id |-> refreshStarts', pc |-> "fetchCandyMachine",
                     candyMachine |-> NULL, remaining |-> 0]}
            /\ last' = Last("refreshStart")
    /\ UNCHANGED <<cm, guard, countTotal, countMinted, countRemaining, costInSol>>
    /\ UNCHANGED <<regMinted, balance, connected, balanceReads>>
    /\ UNCHANGED writer
    /\ Unchanged_env /\ Unchanged_mint
    /\ Commit

\* fetchCandyMachine resolved: setCm and the three counts, then call safeFetchCandyGuard.
retrieveAvailability_machine(r) ==
    /\ Idle
    /\ r \in refreshes /\ r.pc = "fetchCandyMachine"
    /\ LET candyMachine == [itemsLoaded |-> regTotal, itemsRedeemed |-> regMinted]
           total == candyMachine.itemsLoaded
           minted == candyMachine.itemsRedeemed
           remaining == remainingOf(variant, total, minted)
       IN /\ cm' = Some(candyMachine)
          /\ countTotal' = Some(total)
          /\ countMinted' = Some(minted)
          /\ countRemaining' = Some(remaining)
          /\ refreshes' = (refreshes \ {r}) \cup
                 {[id |-> r.id, pc |-> "safeFetchCandyGuard",
                   candyMachine |-> Some(candyMachine), remaining |-> remaining]}
    /\ last' = Last("refreshMachine")
    /\ UNCHANGED <<guard, mintMsg, costInSol, mintDisabled>>
    /\ UNCHANGED <<regMinted, balance, connected, balanceReads, refreshStarts>>
    /\ writer' = [writer EXCEPT !.machine = r.id]
    /\ UNCHANGED refreshResult
    /\ Unchanged_env /\ Unchanged_mint
    /\ Commit

\* A catch block that drops the error's text.
retrieveAvailability_catch_noDetail(e) ==
    /\ mintMsg' = Msg("Could not fetch candy machine.", "")
    /\ mintDisabled' = TRUE
    /\ last' = Caught("refreshFailed", e)
    /\ refreshResult' = "failed"

\* The catch block: message with the error's text, mint disabled.
retrieveAvailability_catch(e) ==
    /\ mintMsg' = MsgFetchFailed(e)
    /\ mintDisabled' = TRUE
    /\ last' = Caught("refreshFailed", e)
    /\ refreshResult' = "failed"

\* fetchCandyMachine rejected.
retrieveAvailability_machineFailed(r, e) ==
    /\ Idle
    /\ r \in refreshes /\ r.pc = "fetchCandyMachine"
    /\ refreshes' = refreshes \ {r}
    /\ retrieveAvailability_catch(e)
    /\ UNCHANGED <<cm, guard, countTotal, countMinted, countRemaining, costInSol>>
    /\ UNCHANGED <<regMinted, balance, connected, balanceReads, refreshStarts>>
    /\ UNCHANGED writer
    /\ Unchanged_env /\ Unchanged_mint
    /\ Commit

\* safeFetchCandyGuard resolved: setGuard, the price, setMintDisabled(!(remaining > 0)).
retrieveAvailability_guard(r) ==
    /\ Idle
    /\ r \in refreshes /\ r.pc = "safeFetchCandyGuard"
    /\ refreshes' = refreshes \ {r}
    /\ writer' = [writer EXCEPT !.guard = r.id]
    /\ guard' = regGuard
    /\ IF solCostThrows(variant, regGuard)
       THEN /\ mintMsg' = MsgFetchFailed(TypeError)
            /\ mintDisabled' = TRUE
            /\ costInSol' = costInSol
            /\ last' = [op |-> "refreshPriceThrew", candyMachine |-> r.candyMachine,
                         error |-> Some(TypeError)]
            /\ refreshResult' = "failed"
       ELSE /\ costInSol' = solCost(variant, regGuard)
            /\ mintDisabled' = soldOut(r.remaining)
            /\ mintMsg' = mintMsg
            /\ last' = [op |-> "refreshOk", candyMachine |-> r.candyMachine, error |-> NULL]
            /\ refreshResult' = "ok"
    /\ UNCHANGED <<cm, countTotal, countMinted, countRemaining>>
    /\ UNCHANGED <<regMinted, balance, connected, balanceReads, refreshStarts>>
    /\ Unchanged_env /\ Unchanged_mint
    /\ Commit

\* safeFetchCandyGuard rejected.
retrieveAvailability_guardFailed(r, e) ==
    /\ Idle
    /\ r \in refreshes /\ r.pc = "safeFetchCandyGuard"
    /\ refreshes' = refreshes \ {r}
    /\ retrieveAvailability_catch(e)
    /\ UNCHANGED <<cm, guard, countTotal, countMinted, countRemaining, costInSol>>
    /\ UNCHANGED <<regMinted, balance, connected, balanceReads, refreshStarts>>
    /\ UNCHANGED writer
    /\ Unchanged_env /\ Unchanged_mint
    /\ Commit

----------------------------------------------------------------------------
(* MintBlock: the balance effect *)

\* The closure a getBalance call resumes in: costInSol and countRemaining of the render
\* that started it (countRemaining is read after the await by the "page" copy only).
ReadOf(v, cost, remaining) ==
    [cost |-> cost, remaining |-> IF v = "page" THEN remaining ELSE NULL]

\* !(countRemaining !== null && countRemaining > 0)
noneRemaining(remaining) == ~(~IsNull(remaining) /\ Val(remaining) > 0)

\* run_decision without the price test: every connected evaluation reads the balance.
run_decision_alwaysRead(v, conn, remaining, cost) ==
    IF ~conn THEN "skip"
    ELSE IF ~IsNull(remaining) /\ Val(remaining) <= 0 THEN "disable"
    ELSE "read"

\* run() up to its await.  The result is what it does: "skip" (wallet not connected),
\* "disable", "enable" or "read" (call getBalance).
run_decision(v, conn, remaining, cost) ==
    IF ~conn THEN "skip"
    ELSE IF v = "page"
         THEN (IF cost <= 0
               THEN (IF noneRemaining(remaining) THEN "disable" ELSE "enable")
               ELSE "read")
         ELSE IF ~IsNull(remaining) /\ Val(remaining) <= 0 THEN "disable"
              ELSE IF cost <= 0 THEN "enable"
              ELSE "read"

\* The effects of MintBlock after a commit.
run_start ==
    /\ gatePending
    /\ LET d == run_decision(variant, connected, countRemaining, costInSol)
       IN /\ mintDisabled' = CASE d = "disable" -> TRUE
                                [] d = "enable" -> FALSE
                                [] OTHER -> mintDisabled
          /\ balanceReads' = IF d = "read"
                              THEN AddRead(balanceReads, ReadOf(variant, costInSol, countRemaining))
                              ELSE balanceReads
    /\ last' = Last("gate")
    /\ gatePending' = (mintDisabled' # mintDisabled)
    /\ UNCHANGED <<cm, guard, mintMsg, countTotal, countMinted, countRemaining, costInSol>>
    /\ UNCHANGED <<regMinted, balance, connected, refreshes, refreshStarts, refreshPending>>
    /\ UNCHANGED refreshResult
    /\ UNCHANGED writer
    /\ Unchanged_env /\ Unchanged_mint

\* sol < costInSol, with sol = Number(balance.basisPoints) / 1_000_000_000
notEnough(lamports, cost) == (lamports \div LamportsPerSol) < cost

\* getBalance resolved.
run_balance(r) ==
    /\ Idle
    /\ r \in DOMAIN balanceReads
    /\ balanceReads' = RemoveRead(balanceReads, r)
    /\ IF notEnough(balance, r.cost)
       THEN /\ mintMsg' = MsgNotEnough(variant)
            /\ mintDisabled' = TRUE
       ELSE /\ mintMsg' = mintMsg
            /\ mintDisabled' = IF variant = "page" THEN noneRemaining(r.remaining) ELSE FALSE
    /\ last' = Last("balance")
    /\ UNCHANGED <<cm, guard, countTotal, countMinted, countRemaining, costInSol>>
    /\ UNCHANGED <<regMinted, balance, connected, refreshes, refreshStarts>>
    /\ UNCHANGED refreshResult
    /\ UNCHANGED writer
    /\ Unchanged_env /\ Unchanged_mint
    /\ Commit

\* A catch that also disables the button.
run_balanceFailed_disable(r, e) ==
    /\ Idle
    /\ r \in DOMAIN balanceReads
    /\ balanceReads' = RemoveRead(balanceReads, r)
    /\ mintMsg' = MsgBalanceFailed(e)
    /\ mintDisabled' = TRUE
    /\ last' = Caught("balanceFailed", e)
    /\ UNCHANGED <<cm, guard, countTotal, countMinted, countRemaining, costInSol>>
    /\ UNCHANGED <<regMinted, balance, connected, refreshes, refreshStarts>>
    /\ UNCHANGED refreshResult
    /\ UNCHANGED writer
    /\ Unchanged_env /\ Unchanged_mint
    /\ Commit

\* getBalance rejected: a message, mintDisabled untouched.
run_balanceFailed(r, e) ==
    /\ Idle
    /\ r \in DOMAIN balanceReads
    /\ balanceReads' = RemoveRead(balanceReads, r)
    /\ mintMsg' = MsgBalanceFailed(e)
    /\ last' = Caught("balanceFailed", e)
    /\ UNCHANGED <<cm, guard, countTotal, countMinted, countRemaining, costInSol, mintDisabled>>
    /\ UNCHANGED <<regMinted, balance, connected, refreshes, refreshStarts>>
    /\ UNCHANGED refreshResult
    /\ UNCHANGED writer
    /\ Unchanged_env /\ Unchanged_mint
    /\ Commit

----------------------------------------------------------------------------
(* The wallet collaborator *)

walletConnect ==
    /\ Idle
    /\ ~connected
    /\ connected' = TRUE
    /\ gatePending' = TRUE
    /\ last' = Last("connect")
    /\ UNCHANGED <<cm, guard, mintMsg, countTotal, countMinted, countRemaining, costInSol, mintDisabled>>
    /\ UNCHANGED <<regMinted, balance, refreshes, balanceReads, refreshStarts, refreshPending>>
    /\ UNCHANGED refreshResult
    /\ UNCHANGED writer
    /\ Unchanged_env /\ Unchanged_mint

walletDisconnect ==
    /\ Idle
    /\ connected
    /\ connected' = FALSE
    /\ gatePending' = TRUE
    /\ last' = Last("disconnect")
    /\ UNCHANGED <<cm, guard, mintMsg, countTotal, countMinted, countRemaining, costInSol, mintDisabled>>
    /\ UNCHANGED <<regMinted, balance, refreshes, balanceReads, refreshStarts, refreshPending>>
    /\ UNCHANGED refreshResult
    /\ UNCHANGED writer
    /\ Unchanged_env /\ Unchanged_mint

----------------------------------------------------------------------------
(* MintBlock: the mint button and mintBtnHandler *)

\* The price label next to the counts.
priceLabel(v, cost) ==
    IF cost > 0 THEN <<"Price: ", cost, " SOL">>
    ELSE IF v = "page" THEN <<"FREE">> ELSE <<"Free mint">>

\* A button with disabled={mintDisabled}: loading does not disable it.
buttonEnabled_noLoading ==
    /\ (variant \in {"backup", "part000"} => IsNull(mintCreated))
    /\ ~mintDisabled

\* The button is on the page ("backup" and "part000" replace it by the explorer link once
\* mintCreated is set) and not disabled: disabled={mintDisabled || loading}.
buttonEnabled ==
    /\ (variant \in {"backup", "part000"} => IsNull(mintCreated))
    /\ ~(mintDisabled \/ loading)

\* mintBtnHandler_reject without the connection test.
mintBtnHandler_reject_noConnection(v, conn, machine) ==
    IF IsNull(machine) THEN MsgNotLoaded(v) ELSE NULL

\* The two early returns of mintBtnHandler: the message to show, NULL to go on.
mintBtnHandler_reject(v, conn, machine) ==
    IF ~conn THEN MsgConnectFirst
    ELSE IF IsNull(machine) THEN MsgNotLoaded(v)
    ELSE NULL

\* The mintArgs handed to mintV2.  Three copies pass the empty object whatever the
\* held guard says; the fourth adds the destination of an active solPayment guard.
mintArgsOf(v, cg) ==
    IF v = "werkend" /\ ~IsNull(cg) /\ ~IsNull(unwrapSome(Val(cg).solPayment))
    THEN [solPayment |-> Some([destination |-> Val(cg).solPayment.destination])]
    ELSE [solPayment |-> NULL]

\* mintTx that mints to the payer's key instead of the generated signer.
mintTx_payer(machine, cg, signer) ==
    [units |-> ComputeUnits,
     candyMachine |-> Val(machine),
     candyGuard |-> cg,
     mintArgs |-> mintArgsOf(variant, cg),
     nftSigner |-> PayerKey]

\* The transaction built for one attempt: setComputeUnitLimit, then mintV2 with a
\* freshly generated nftMint signer.
mintTx(machine, cg, signer) ==
    [units |-> ComputeUnits,
     candyMachine |-> Val(machine),
     candyGuard |-> cg,
     mintArgs |-> mintArgsOf(variant, cg),
     nftSigner |-> signer]

\* A click on the enabled button, up to the await of sendAndConfirm.  Building the
\* transaction may throw; the catch and finally blocks then run in the same segment.
mintBtnHandler_click ==
    /\ Idle
    /\ buttonEnabled
    /\ clicks < MaxClicks
    /\ clicks' = clicks + 1
    /\ LET rejected == mintBtnHandler_reject(variant, connected, cm)
       IN IF ~IsNull(rejected)
          THEN /\ mintMsg' = rejected
               /\ last' = Last("clickRejected")
               /\ UNCHANGED <<loading, mintCall, nextKey, sends>>
          ELSE \/ /\ loading' = TRUE
                  /\ mintMsg' = NULL
                  /\ nextKey' = nextKey + 1
                  /\ mintCall' = Some(mintTx(cm, guard, nextKey))
                  /\ sends' = sends + 1
                  /\ last' = Last("clickSent")
               \/ \E e \in Errors :
                  /\ mintMsg' = MsgThrown(e)
                  /\ loading' = FALSE
                  /\ last' = Caught("clickThrew", e)
                  /\ UNCHANGED <<mintCall, nextKey, sends>>
    /\ UNCHANGED <<cm, guard, mintCreated, countTotal, countMinted, countRemaining, costInSol, mintDisabled>>
    /\ UNCHANGED <<regMinted, balance, connected, refreshes, balanceReads, refreshStarts>>
    /\ UNCHANGED refreshResult
    /\ UNCHANGED writer
    /\ Unchanged_env
    /\ Commit

\* The ledger accepts a mint only while items are left and the payer can pay the
\* guard's amount.
\* The ledger is outside the repository: it is taken to accept whatever it could
\* accept, whether or not the transaction names the payment destination.
ledgerAccepts ==
    /\ regMinted < regTotal
    /\ (~IsNull(regGuard) /\ isSome(Val(regGuard).solPayment)
            => balance >= Val(regGuard).solPayment.lamports)

ledgerPrice ==
    IF ~IsNull(regGuard) /\ isSome(Val(regGuard).solPayment)
    THEN Val(regGuard).solPayment.lamports
    ELSE 0

\* sendAndConfirm resolved: the signer's key is recorded.
mintBtnHandler_confirmed ==
    /\ Idle
    /\ ~IsNull(mintCall)
    /\ ledgerAccepts
    /\ regMinted' = regMinted + 1
    /\ balance' = balance - ledgerPrice
    /\ mintCreated' = Some(Val(mintCall).nftSigner)
    /\ mintMsg' = MsgMintOk(variant)
    /\ loading' = FALSE
    /\ mintCall' = NULL
    /\ last' = Last("mintOk")
    /\ UNCHANGED <<cm, guard, countTotal, countMinted, countRemaining, costInSol, mintDisabled>>
    /\ UNCHANGED <<connected, refreshes, balanceReads, refreshStarts, nextKey, clicks, sends>>
    /\ UNCHANGED refreshResult
    /\ UNCHANGED writer
    /\ Unchanged_env
    /\ Commit

\* A catch block that submits the transaction again.
mintBtnHandler_catch_retry(e) ==
    /\ mintMsg' = MsgThrown(e)
    /\ IF sends <= MaxClicks
       THEN loading' = TRUE /\ mintCall' = mintCall /\ sends' = sends + 1
       ELSE loading' = FALSE /\ mintCall' = NULL /\ sends' = sends

\* The catch and finally blocks: the error's text is shown, loading ends, nothing is sent.
mintBtnHandler_catch(e) ==
    /\ mintMsg' = MsgThrown(e)
    /\ loading' = FALSE
    /\ mintCall' = NULL
    /\ sends' = sends

\* sendAndConfirm threw.
mintBtnHandler_failed(e) ==
    /\ Idle
    /\ ~IsNull(mintCall)
    /\ mintBtnHandler_catch(e)
    /\ last' = Caught("mintFailed", e)
    /\ UNCHANGED <<cm, guard, mintCreated, countTotal, countMinted, countRemaining, costInSol, mintDisabled>>
    /\ UNCHANGED <<regMinted, balance, connected, refreshes, balanceReads, refreshStarts, nextKey, clicks>>
    /\ UNCHANGED refreshResult
    /\ UNCHANGED writer
    /\ Unchanged_env
    /\ Commit

----------------------------------------------------------------------------
(* The specification *)

Next ==
    \/ retrieveAvailability_start
    \/ \E r \in refreshes : retrieveAvailability_machine(r)
    \/ \E r \in refreshes, e \in Errors : retrieveAvailability_machineFailed(r, e)
    \/ \E r \in refreshes : retrieveAvailability_guard(r)
    \/ \E r \in refreshes, e \in Errors : retrieveAvailability_guardFailed(r, e)
    \/ run_start
    \/ \E r \in DOMAIN balanceReads : run_balance(r)
    \/ \E r \in DOMAIN balanceReads, e \in Errors : run_balanceFailed(r, e)
    \/ walletConnect
    \/ walletDisconnect
    \/ mintBtnHandler_click
    \/ mintBtnHandler_confirmed
    \/ \E e \in Errors : mintBtnHandler_failed(e)

Spec == Init /\ [][Next]_vars

TypeOK ==
    /\ variant \in Variants
    /\ connected \in BOOLEAN /\ loading \in BOOLEAN /\ mintDisabled \in BOOLEAN
    /\ gatePending \in BOOLEAN /\ refreshPending \in BOOLEAN
    /\ costInSol \in 0..2
    /\ clicks \in 0..MaxClicks /\ sends \in 0..clicks
    /\ refreshResult \in {"none", "ok", "failed"}
    /\ mounted \in BOOLEAN
    /\ again \in 0..MaxAgain

----------------------------------------------------------------------------
(* Teardown: the route is left while calls are in flight *)

\* Page is unmounted.  The effects of a commit run before any other event, so none is
\* due; no effect of the page has a cleanup, so the calls in flight go on.
Page_unmount ==
    /\ Idle
    /\ mounted' = FALSE
    /\ last' = Last("unmount")
    /\ UNCHANGED <<env, home, variant, again, baseline, cmIdKind, regTotal, regMinted, regGuard, balance, connected>>
    /\ UNCHANGED <<reactState, refreshes, balanceReads, mintCall, gatePending, refreshPending>>
    /\ UNCHANGED <<nextKey, clicks, sends, refreshStarts, refreshResult, writer>>

\* Setters that still write after the unmount.
retrieveAvailability_unmounted_writes(r) ==
    /\ ~mounted
    /\ r \in refreshes
    /\ refreshes' = refreshes \ {r}
    /\ mintMsg' = MsgFetchFailed([message |-> "timeout"])
    /\ mintDisabled' = TRUE
    /\ last' = Last("refreshUnmounted")
    /\ UNCHANGED <<env, home, variant, mounted, again, baseline, cmIdKind, regTotal, regMinted, regGuard, balance, connected>>
    /\ UNCHANGED <<cm, guard, loading, mintCreated, countTotal, countMinted, countRemaining, costInSol>>
    /\ UNCHANGED <<balanceReads, mintCall, gatePending, refreshPending>>
    /\ UNCHANGED <<nextKey, clicks, sends, refreshStarts, refreshResult, writer>>

\* A retrieveAvailability call resumes after the unmount.  Its code runs as before
\* (after fetchCandyMachine it goes on to call safeFetchCandyGuard), but the setters
\* belong to the unmounted Page: React drops their updates.
retrieveAvailability_unmounted(r) ==
    /\ ~mounted
    /\ r \in refreshes
    /\ \/ /\ r.pc = "fetchCandyMachine"
          /\ refreshes' = (refreshes \ {r}) \cup
                 {[id |-> r.id, pc |-> "safeFetchCandyGuard",
                   candyMachine |-> Some([itemsLoaded |-> regTotal, itemsRedeemed |-> regMinted]),
                   remaining |-> remainingOf(variant, regTotal, regMinted)]}
       \/ refreshes' = refreshes \ {r}
    /\ last' = Last("refreshUnmounted")
    /\ UNCHANGED <<env, home, variant, mounted, again, baseline, cmIdKind, regTotal, regMinted, regGuard, balance, connected>>
    /\ UNCHANGED <<reactState, balanceReads, mintCall, gatePending, refreshPending>>
    /\ UNCHANGED <<nextKey, clicks, sends, refreshStarts, refreshResult, writer>>

\* getBalance resolves or rejects after the unmount.
run_unmounted(r) ==
    /\ ~mounted
    /\ r \in DOMAIN balanceReads
    /\ balanceReads' = RemoveRead(balanceReads, r)
    /\ last' = Last("balanceUnmounted")
    /\ UNCHANGED <<env, home, variant, mounted, again, baseline, cmIdKind, regTotal, regMinted, regGuard, balance, connected>>
    /\ UNCHANGED <<reactState, refreshes, mintCall, gatePending, refreshPending>>
    /\ UNCHANGED <<nextKey, clicks, sends, refreshStarts, refreshResult, writer>>

\* sendAndConfirm resolves or throws after the unmount: the ledger has minted or not.
mintBtnHandler_unmounted ==
    /\ ~mounted
    /\ ~IsNull(mintCall)
    /\ mintCall' = NULL
    /\ \/ /\ ledgerAccepts
          /\ regMinted' = regMinted + 1
          /\ balance' = balance - ledgerPrice
       \/ UNCHANGED <<regMinted, balance>>
    /\ last' = Last("mintUnmounted")
    /\ UNCHANGED <<env, home, variant, mounted, again, baseline, cmIdKind, regTotal, regGuard, connected>>
    /\ UNCHANGED <<reactState, refreshes, balanceReads, gatePending, refreshPending>>
    /\ UNCHANGED <<nextKey, clicks, sends, refreshStarts, refreshResult, writer>>

NextTeardown ==
    \/ Next
    \/ Page_unmount
    \/ \E r \in refreshes : retrieveAvailability_unmounted(r)
    \/ \E r \in DOMAIN balanceReads : run_unmounted(r)
    \/ mintBtnHandler_unmounted

SpecTeardown == Init /\ [][NextTeardown]_vars

----------------------------------------------------------------------------
(* Refresh run again on a settled page, the surroundings standing still *)

\* Nothing is due and no call is in flight.
Settled == Idle /\ balanceReads = NoReads /\ refreshes = {} /\ IsNull(mintCall)

\* What the page shows of a refresh: counts, price, eligibility, message.
shown == <<countTotal, countMinted, countRemaining, costInSol, mintDisabled, mintMsg>>

\* Steps in which the wallet, the user, the registry or the ledger do something new:
\* a connect or disconnect, a click and its outcome, a read that is rejected.
Disturbs(l) ==
    \/ l.op \in {"connect", "disconnect", "clickRejected", "clickSent", "clickThrew",
                 "mintOk", "mintFailed", "balanceFailed"}
    \/ l.op = "refreshFailed" /\ ~IsNull(l.error)

\* Page's effect runs retrieveAvailability once more on the settled page.  The second
\* time, what is shown is kept for comparison.
retrieveAvailability_again ==
    /\ Settled
    /\ again < MaxAgain
    /\ again' = again + 1
    /\ baseline' = IF again >= 1 THEN Some(shown) ELSE baseline
    /\ refreshPending' = TRUE
    /\ last' = Last("again")
    /\ UNCHANGED <<env, home, variant, mounted, cmIdKind, regTotal, regMinted, regGuard, balance, connected>>
    /\ UNCHANGED <<reactState, refreshes, balanceReads, mintCall, gatePending>>
    /\ UNCHANGED <<nextKey, clicks, sends, refreshStarts, refreshResult, writer>>

\* From the first such run on, registry, wallet, balance and user stand still.
NextAgain ==
    \/ Next /\ (again = 0 \/ ~Disturbs(last'))
    \/ retrieveAvailability_again

SpecAgain == Init /\ [][NextAgain]_vars

----------------------------------------------------------------------------
(* The resolver on its own: any configuration, one render *)

\* One setting ranges over every string up to MaxLen pieces, the others over a few.
InitEnv ==
    /\ variant \in Copies
    /\ \E focus \in {"network", "rpc", "id"} :
         env \in [NEXT_PUBLIC_NETWORK :
                      IF focus = "network" THEN Str(NetChars, MaxLen)
                      ELSE {<<>>, <<"devnet">>, <<"testnet">>},
                  NEXT_PUBLIC_RPC_URL :
                      IF focus = "rpc" THEN Str(RpcChars, MaxLen) ELSE {<<>>},
                  NEXT_PUBLIC_CANDY_MACHINE_ID :
                      IF focus = "id" THEN Str(IdChars, MaxLen) ELSE {<<"K">>}]
    /\ home = NULL
    /\ mounted = TRUE
    /\ again = 0 /\ baseline = NULL
    /\ cmIdKind = cmIdKindOf(getCandyMachineId(variant, env.NEXT_PUBLIC_CANDY_MACHINE_ID))
    /\ mintCreated \in {NULL, Some(1)}
    /\ regTotal = 1 /\ regMinted = 0 /\ regGuard = NULL /\ balance = 0
    /\ connected = FALSE
    /\ cm = NULL /\ guard = NULL
    /\ loading = FALSE /\ mintMsg = NULL
    /\ countTotal = NULL /\ countMinted = NULL /\ countRemaining = NULL
    /\ costInSol = 0
    /\ mintDisabled = TRUE
    /\ refreshes = {} /\ balanceReads = NoReads /\ mintCall = NULL
    /\ gatePending = TRUE /\ refreshPending = TRUE
    /\ nextKey = 2
    /\ clicks = 0 /\ sends = 0 /\ refreshStarts = 0
    /\ last = Last("mount")
    /\ refreshResult = "none"
    /\ writer = [machine |-> 0, guard |-> 0]

\* Page renders: network, endpoint, the identifier retrieveAvailability will
\* use, and the explorer link of the asset on show.
Page_render ==
    /\ IsNull(home)
    /\ LET network == getNetwork(variant, env.NEXT_PUBLIC_NETWORK)
       IN home' = Some([network |-> network,
                        endpoint |-> getEndpoint(variant, env.NEXT_PUBLIC_RPC_URL,
                                                 env.NEXT_PUBLIC_NETWORK),
                        cmIdStr |-> getCandyMachineId(variant, env.NEXT_PUBLIC_CANDY_MACHINE_ID),
                        href |-> explorerHref(network, mintCreated)])
    /\ last' = Last("render")
    /\ UNCHANGED <<env, variant, mounted, again, baseline, cmIdKind, regTotal, regMinted, regGuard, balance, connected>>
    /\ UNCHANGED <<reactState, refreshes, balanceReads, mintCall, gatePending, refreshPending>>
    /\ UNCHANGED <<nextKey, clicks, sends, refreshStarts, refreshResult, writer>>

NextEnv == Page_render

SpecEnv == InitEnv /\ [][NextEnv]_vars

----------------------------------------------------------------------------
(* Claims *)

\* C1: a click handled while the wallet is disconnected, or while no machine record is
\* held, ends in the same step with the message of the failed test (connection first):
\* loading stays false, no signer is generated, sendAndConfirm is not called, no
\* registry fetch and no balance read is started, and the effects that follow the
\* commit start no balance read either.
C1_RejectedClickIssuesNothing ==
    [][ (clicks' = clicks + 1 /\ (~connected \/ IsNull(cm))) =>
          /\ last'.op = "clickRejected"
          /\ mintMsg' = (IF ~connected THEN MsgConnectFirst ELSE MsgNotLoaded(variant))
          /\ ~loading /\ ~loading'
          /\ nextKey' = nextKey
          /\ sends' = sends /\ mintCall' = mintCall
          /\ refreshes' = refreshes /\ ~refreshPending'
          /\ balanceReads' = balanceReads
          /\ run_decision(variant, connected', countRemaining', costInSol') # "read" ]_vars

C1_Witness ==
    /\ last.op = "clickRejected"
    /\ ~connected
    /\ mintMsg = MsgConnectFirst
    /\ ~IsNull(cm)

\* The other case of C1: a click with a connected wallet and no machine record.
C1_WitnessNotLoaded ==
    /\ last.op = "clickRejected"
    /\ connected
    /\ IsNull(cm)
    /\ mintMsg = MsgNotLoaded(variant)

\* C2: while the wallet is connected, the held price is > 0 and the ledger balance is
\* below it, no step calls sendAndConfirm.
C2_NoSendWhileInsufficient ==
    [][ (connected /\ costInSol > 0 /\ notEnough(balance, costInSol)) => sends' = sends ]_vars

\* A "sold out" status message; no copy of the page has one.
MsgSoldOut == Msg("sold out", "")

\* The machine record the last completed refresh had fetched shows minted = total.
refreshedSoldOut(l) ==
    /\ l.op = "refreshOk"
    /\ Val(l.candyMachine).itemsRedeemed = Val(l.candyMachine).itemsLoaded

C4_DisconnectedIsDisabled ==
    (~connected /\ Idle) => mintDisabled

\* max(0, n)
Max0(n) == IF n > 0 THEN n ELSE 0

\* C5: after every successful refresh the held remaining count is
\* max(0, total - minted), hence never negative.
C5_RemainingClamped ==
    last.op = "refreshOk" =>
        /\ Val(countRemaining) = Max0(Val(countTotal) - Val(countMinted))
        /\ Val(countRemaining) >= 0

\* The reference price of a condition set: 0 when absent, 0 when the payment condition
\* is unset, amount / 1_000_000_000 when it is set.
referencePrice(cg) ==
    IF IsNull(cg) THEN 0
    ELSE IF Val(cg).solPayment.option = "None" THEN 0
    ELSE Val(cg).solPayment.lamports \div LamportsPerSol

\* C6: once both registry reads of a refresh have resolved, the refresh completes
\* without failure and the held price is the reference price of the held condition
\* set, for all three shapes of condition set.
C6_PriceMatchesReference ==
    /\ last.op # "refreshPriceThrew"
    /\ (last.op = "refreshOk" => costInSol = referencePrice(guard))

\* C7: for a machine with no candy guard the held price is 0 and the label is the
\* free one, no getBalance call is ever in flight, and once the effects have run with
\* a connected wallet and loaded counts, mint is enabled exactly when remaining > 0.
\* The ledger balance occurs nowhere in the formula and ranges over BalanceLamports.
C7_FreeMintIgnoresBalance ==
    IsNull(regGuard) =>
        /\ costInSol = 0
        /\ priceLabel(variant, costInSol) \in {<<"FREE">>, <<"Free mint">>}
        /\ balanceReads = NoReads
        /\ (connected /\ Idle /\ ~IsNull(countRemaining)
               => (~mintDisabled <=> Val(countRemaining) > 0))

C7_Witness ==
    /\ IsNull(regGuard)
    /\ last.op = "gate"
    /\ connected /\ Idle
    /\ balance = 0
    /\ ~IsNull(countRemaining) /\ Val(countRemaining) > 0
    /\ ~mintDisabled

\* C8: sendAndConfirm is called only in the step that handles a click, and once in it.
C8_OneSendPerClick ==
    [][ sends' # sends => (sends' = sends + 1 /\ clicks' = clicks + 1) ]_vars

C8_Witness ==
    /\ last.op = "mintFailed"
    /\ clicks = 1 /\ sends = 1
    /\ IsNull(mintCall)

\* C9 as stated: every step that ends a mint attempt, successful or not, triggers a
\* refresh.
C9_RefreshAfterEveryAttempt ==
    [][ (~IsNull(mintCall) /\ IsNull(mintCall')) => refreshPending' ]_vars

\* C9 amended: a step that ends a mint attempt triggers a refresh exactly when the
\* attempt succeeded, that is when it recorded a new asset identifier.
C9_RefreshAfterSuccess ==
    [][ (~IsNull(mintCall) /\ IsNull(mintCall')) =>
          /\ (last'.op = "mintOk" <=> mintCreated' # mintCreated)
          /\ (refreshPending' <=> last'.op = "mintOk") ]_vars

C9_Witness ==
    /\ last.op = "mintOk"
    /\ refreshPending
    /\ refreshStarts >= 1

\* C10: the step in which sendAndConfirm returns records the key of the signer that
\* the click of this attempt generated (the latest one, nextKey - 1); it is not the
\* payer's key, not the identifier held before and no key of an earlier attempt.
C10_AssetIsFreshSigner ==
    [][ (~IsNull(mintCall) /\ IsNull(mintCall') /\ last'.op = "mintOk") =>
          /\ mintCreated' = Some(nextKey - 1)
          /\ Val(mintCreated') # PayerKey
          /\ mintCreated' # mintCreated
          /\ Val(mintCreated') \notin 1..(nextKey - 2) ]_vars

C10_Witness ==
    /\ last.op = "mintOk"
    /\ sends = 2
    /\ mintCreated = Some(2)

\* C11: when building, signing, sending or confirming a mint throws, the step that
\* catches the error ends the attempt: the message shown is the error's own message with
\* nothing added (String(err) when the error has no message), loading is false, no
\* transaction stays in flight, and the asset identifier, the counts, the price, the
\* machine record and the guard record are what they were before the step.
thrownText(e) == IF e.message = "" THEN "Error" ELSE e.message

C11_ThrowEndsAttempt ==
    [][ (last'.op \in {"clickThrew", "mintFailed"} /\ (clicks' # clicks \/ mintCall' # mintCall)) =>
          /\ ~IsNull(last'.error)
          /\ mintMsg' = <<"", thrownText(Val(last'.error))>>
          /\ ~loading' /\ IsNull(mintCall')
          /\ sends' = sends
          /\ mintCreated' = mintCreated
          /\ UNCHANGED <<countTotal, countMinted, countRemaining, costInSol, cm, guard>> ]_vars

\* sendAndConfirm threw "timeout" for a loaded machine.
C11_Witness ==
    /\ last.op = "mintFailed"
    /\ last.error = Some([message |-> "timeout"])
    /\ mintMsg = <<"", "timeout">>
    /\ ~loading /\ IsNull(mintCreated) /\ ~IsNull(cm)
    /\ sends = 1

\* C12: a refresh that finds no identifier, or one that publicKey() rejects, ends in the
\* step that started it, with the mint button disabled and the message of the failed
\* test; it calls neither fetchCandyMachine nor safeFetchCandyGuard, starts no balance
\* read and no transaction, the effects that follow its commit start no balance read,
\* and the refresh ends through a return (no error is caught or thrown).
C12_BadIdentifierRefresh ==
    [][ (refreshStarts' = refreshStarts + 1 /\ cmIdKind \in {"missing", "invalid"}) =>
          /\ last'.op = "refreshFailed" /\ IsNull(last'.error)
          /\ mintDisabled'
          /\ mintMsg' = (IF cmIdKind = "missing" THEN MsgMissingId(variant) ELSE MsgInvalidId)
          /\ refreshes = {} /\ refreshes' = {}
          /\ balanceReads' = balanceReads
          /\ mintCall' = mintCall /\ sends' = sends
          /\ UNCHANGED <<cm, guard, countTotal, countMinted, countRemaining, costInSol>>
          /\ run_decision(variant, connected', countRemaining', costInSol') # "read" ]_vars

\* A refresh with an identifier that is not a key has ended.
C12_Witness ==
    /\ cmIdKind = "invalid"
    /\ last.op = "refreshFailed"
    /\ refreshStarts = 1
    /\ mintDisabled /\ mintMsg = MsgInvalidId
    /\ refreshes = {} /\ balanceReads = NoReads

\* C13: when fetchCandyMachine rejects, the step that catches the error ends the refresh
\* with the mint button disabled and a message that ends with the error's own message
\* (String(err) when it has none); the refresh is gone, nothing it held is written,
\* and the error is caught (the step is the catch block's).
C13_FetchFailureShown ==
    [][ (\E r \in refreshes : r.pc = "fetchCandyMachine" /\ refreshes' = refreshes \ {r}
                               /\ last'.op = "refreshFailed") =>
          /\ ~IsNull(last'.error)
          /\ mintDisabled'
          /\ Len(mintMsg') = 2
          /\ mintMsg'[2] = thrownText(Val(last'.error))
          /\ UNCHANGED <<cm, guard, countTotal, countMinted, countRemaining, costInSol>> ]_vars

\* fetchCandyMachine rejected with "timeout" in the first refresh.
C13_Witness ==
    /\ last.op = "refreshFailed"
    /\ last.error = Some([message |-> "timeout"])
    /\ IsNull(cm)
    /\ mintDisabled
    /\ mintMsg = <<"Could not fetch candy machine. Check RPC/network. Details: ", "timeout">>
    /\ refreshes = {}

\* C14: from the end of a refresh that failed (no identifier, an identifier that is not
\* a key, a rejected fetch) until a later refresh succeeds, the mint button is disabled,
\* whatever wallet events and gate evaluations happen in between.
C14_FailedRefreshStaysDisabled ==
    refreshResult = "failed" => mintDisabled

\* C15: the step that completes a refresh (safeFetchCandyGuard resolved and the price
\* computed) leaves the mint button enabled exactly when the remaining count this
\* refresh computed from the machine it fetched is > 0, whether or not a wallet is
\* connected and whatever its balance and the price are.
C15_RefreshIsSupplyGate ==
    [][ (last'.op = "refreshOk" /\ refreshes' # refreshes) =>
          LET candyMachine == Val(last'.candyMachine)
              remaining == remainingOf(variant, candyMachine.itemsLoaded, candyMachine.itemsRedeemed)
          IN (~mintDisabled') <=> (remaining > 0) ]_vars

\* A refresh has just enabled the button for a wallet that cannot pay the price.
C15_Witness ==
    /\ last.op = "refreshOk"
    /\ ~mintDisabled
    /\ connected
    /\ costInSol = 1 /\ balance = 0
    /\ Val(countRemaining) > 0

\* The same with no wallet connected.
C15_WitnessDisconnected ==
    /\ last.op = "refreshOk"
    /\ ~mintDisabled
    /\ ~connected
    /\ Val(countRemaining) > 0

\* C16: once an asset identifier is recorded, the explorer link rendered is
\* https://solscan.io/token/ followed by the base58 text of that identifier, followed by
\* ?cluster=devnet when the resolved network is Devnet and by nothing when it is
\* Mainnet or Testnet; the resolved network is Devnet exactly when the setting, lower
\* cased and trimmed, reads devnet.
C16_ExplorerLink ==
    (~IsNull(home) /\ ~IsNull(mintCreated)) =>
        LET h == Val(home)
            setting == env.NEXT_PUBLIC_NETWORK
            dev == \E i \in 1..Len(setting) :
                      /\ setting[i] \in {"devnet", "DEVNET"}
                      /\ \A j \in 1..Len(setting) : j # i => setting[j] = " "
        IN /\ ~IsNull(h.href)
           /\ Len(Val(h.href)) = 3
           /\ Val(h.href)[1] = "https://solscan.io/token/"
           /\ Val(h.href)[2] = <<"base58", Val(mintCreated)>>
           /\ Val(h.href)[3] = (IF h.network = "Devnet" THEN "?cluster=devnet" ELSE "")
           /\ (h.network = "Devnet") <=> dev

\* The link of asset 1 on devnet, from a setting in capitals with a space before it.
C16_Witness ==
    /\ ~IsNull(home)
    /\ env.NEXT_PUBLIC_NETWORK = <<" ", "DEVNET">>
    /\ Val(home).network = "Devnet"
    /\ Val(home).href = Some(<<"https://solscan.io/token/", <<"base58", 1>>, "?cluster=devnet">>)

\* The link of asset 1 on testnet carries no suffix.
C16_WitnessTestnet ==
    /\ ~IsNull(home)
    /\ Val(home).network = "Testnet"
    /\ Val(home).href = Some(<<"https://solscan.io/token/", <<"base58", 1>>, "">>)

\* C17: the resolved machine identifier is the configured string without the white
\* space and the quote characters around it, and it is null when nothing is left
\* (unset, blank, or only quotes).
RECURSIVE unwrapped(_)
unwrapped(str) ==
    IF str # <<>> /\ Head(str) \in {" ", "\""} THEN unwrapped(Tail(str))
    ELSE IF str # <<>> /\ str[Len(str)] \in {" ", "\""} THEN unwrapped(SubSeq(str, 1, Len(str) - 1))
    ELSE str

C17_IdentifierUnwrapped ==
    ~IsNull(home) =>
        LET left == unwrapped(env.NEXT_PUBLIC_CANDY_MACHINE_ID)
        IN Val(home).cmIdStr = (IF left = <<>> THEN NULL ELSE Some(left))

\* C18: the resolved endpoint is the override (trimmed) exactly when that is a
\* syntactically valid http(s) URL, and the default endpoint of the resolved network
\* otherwise; in every configuration it is a valid http(s) URL.
isHttpUrl(str) ==
    \E scheme \in {<<"http", "://">>, <<"http", "s", "://">>} :
        /\ startsWith(str, scheme)
        /\ Len(str) > Len(scheme)
        /\ str[Len(scheme) + 1] # "://"
        /\ \A i \in 1..Len(str) : str[i] # " "

C18_EndpointIsUrl ==
    ~IsNull(home) =>
        LET override == trim(env.NEXT_PUBLIC_RPC_URL)
            h == Val(home)
        IN /\ h.endpoint = (IF isHttpUrl(override) THEN override ELSE defaultEndpoint(h.network))
           /\ isHttpUrl(h.endpoint)

\* C19: sendAndConfirm is called only from a state in which the wallet is connected, a
\* machine record is held, the held remaining count is > 0, the button is enabled, no
\* other attempt is in flight, and the price is 0 or the wallet's balance covers it.
C19_SendOnlyWhenEligible ==
    [][ sends' = sends + 1 =>
          /\ connected
          /\ ~IsNull(cm)
          /\ ~mintDisabled
          /\ ~loading /\ IsNull(mintCall)
          /\ ~IsNull(countRemaining) /\ Val(countRemaining) > 0
          /\ (costInSol = 0 \/ ~notEnough(balance, costInSol)) ]_vars

\* C20: a getBalance result never makes the button enabled while the held remaining
\* count is <= 0, and a result that arrives after the wallet disconnected, or after
\* the price changed from the one its evaluation captured, changes neither
\* mintDisabled nor the message.
C20_StaleBalanceIgnored ==
    [][ \A r \in DOMAIN balanceReads :
          (balanceReads' = RemoveRead(balanceReads, r) /\ last'.op \in {"balance", "balanceFailed"}) =>
             /\ (mintDisabled /\ ~mintDisabled') =>
                    (IsNull(countRemaining') \/ Val(countRemaining') > 0)
             /\ (~connected \/ r.cost # costInSol) =>
                    (mintDisabled' = mintDisabled /\ mintMsg' = mintMsg) ]_vars

\* C21: a click calls sendAndConfirm only when no call is in flight and loading is
\* false, and while a call is in flight loading is true (the button is disabled by
\* it): no second attempt starts before the first has ended.
C21_AttemptsSerialized ==
    [][ /\ sends' = sends + 1 => (IsNull(mintCall) /\ ~loading)
        /\ ~IsNull(mintCall') => loading' ]_vars

\* A second attempt is in flight, after the first one ended.
C21_Witness ==
    /\ sends = 2
    /\ ~IsNull(mintCall)
    /\ loading
    /\ ~mintDisabled

\* C22: when the last refresh in flight completes, the held machine record, counts,
\* guard, price and mintDisabled are all what this refresh fetched and computed,
\* whatever other refreshes ran while it was in flight.
C22_LastCompletedWins ==
    [][ (last'.op = "refreshOk" /\ refreshes # {} /\ refreshes' = {}) =>
          LET candyMachine == Val(last'.candyMachine)
              remaining == remainingOf(variant, candyMachine.itemsLoaded, candyMachine.itemsRedeemed)
          IN /\ cm' = Some(candyMachine)
             /\ countTotal' = Some(candyMachine.itemsLoaded)
             /\ countMinted' = Some(candyMachine.itemsRedeemed)
             /\ countRemaining' = Some(remaining)
             /\ guard' = regGuard
             /\ (~mintDisabled') <=> (remaining > 0) ]_vars

\* C23: whenever no effect is due, the held machine record and counts were written by
\* the same refresh as the held guard and price: no state shows the one without the
\* other, and a refresh whose guard fetch fails has left nothing behind.
C23_SnapshotFromOneRefresh ==
    Idle => writer.machine = writer.guard

C25_PaymentDestinationPassed ==
    [][ sends' = sends + 1 =>
          LET args == Val(mintCall').mintArgs
          IN  IF ~IsNull(guard) /\ isSome(Val(guard).solPayment)
              THEN args.solPayment = Some([destination |-> Val(guard).solPayment.destination])
              ELSE IsNull(args.solPayment) ]_vars

\* C26: the step in which getBalance rejects sets the message "Could not read wallet
\* balance: " followed by the text of the error, and leaves mintDisabled, the counts
\* and the price as they were.
C26_BalanceFailureKeepsEligibility ==
    [][ (last'.op = "balanceFailed" /\ balanceReads' # balanceReads) =>
          /\ mintMsg' = Msg("Could not read wallet balance: ", ErrText(Val(last'.error)))
          /\ mintDisabled' = mintDisabled
          /\ UNCHANGED <<countTotal, countMinted, countRemaining, costInSol>> ]_vars

\* A balance read has just failed while the button was enabled, and it still is.
C26_Witness ==
    /\ last.op = "balanceFailed"
    /\ mintMsg = MsgBalanceFailed([message |-> "timeout"])
    /\ ~mintDisabled
    /\ costInSol > 0

\* Nothing is due and nothing is in flight.
C27_Settled == Idle /\ balanceReads = NoReads /\ refreshes = {} /\ IsNull(mintCall)

\* C27: every change of the connection, the price or the remaining count makes the gate
\* run again, and once everything has settled (the last balance read not having
\* failed) an enabled button means what the gate would say of the latest values: the
\* wallet is connected, something remains, and the balance covers the price.
C27_GateFollowsLatest ==
    /\ [][ (connected' # connected \/ costInSol' # costInSol \/ countRemaining' # countRemaining)
             => gatePending' ]_vars
    /\ []( (C27_Settled /\ last.op # "balanceFailed" /\ ~mintDisabled) =>
             /\ connected
             /\ IsNull(countRemaining) \/ Val(countRemaining) > 0
             /\ costInSol = 0 \/ ~notEnough(balance, costInSol) )

\* C28: with registry, wallet and balance standing still, once a refresh run again has
\* settled, a further run of it settles to the same counts, price, eligibility and
\* message.
C28_RefreshIdempotent ==
    (again >= 2 /\ Settled /\ last.op # "again") => shown = Val(baseline)

\* C29: the step in which sendAndConfirm returns or throws ends the attempt (loading
\* false, no call in flight), and while the call is in flight no other step ends it:
\* loading stays true until that step, there being no timeout.
C29_AttemptEndsWithCall ==
    [][ /\ (~IsNull(mintCall) /\ last'.op \in {"mintOk", "mintFailed"}) =>
               (~loading' /\ IsNull(mintCall'))
        /\ (~IsNull(mintCall) /\ last'.op \notin {"mintOk", "mintFailed"}) =>
               (loading' /\ mintCall' = mintCall) ]_vars

\* The second attempt has ended with sendAndConfirm throwing, after other steps (a
\* refresh, a gate evaluation) were taken while it was in flight.
C29_Witness ==
    /\ sends = 2
    /\ last.op = "mintFailed"
    /\ ~loading /\ IsNull(mintCall)
    /\ mintMsg = MsgThrown([message |-> "timeout"])

\* C30: once the success message of a mint is shown, the only steps that replace it
\* are a dismissal by the user and a new click on the mint button; in particular the
\* refresh started by the change of mintCreated leaves it shown.
C30_SuccessMessageStays ==
    [][ (mintMsg = MsgMintOk(variant) /\ mintMsg' # mintMsg) =>
            last'.op \in {"dismiss", "clickSent", "clickThrew", "clickRejected"} ]_vars

====
